---- MODULE Spec2Model ----
(***************************************************************************)
(* Generation dispatch, error classification / fallback, metrics and the   *)
(* experiment loop of the prompt-engineering playground backend            *)
(* (backend/llm_service_fixed.py, backend/main.py), with the rows the      *)
(* background tasks store and the rating handler                           *)
(* (backend/data_service.py).                                              *)
(*                                                                         *)
(* Conventions.                                                            *)
(*  - A text (a Python str) is a sequence of one-character strings,        *)
(*    written Chars("...").  Every non-ASCII code point of a source        *)
(*    literal (the emoji of the mock templates) is written "#", one "#"    *)
(*    per code point, so lengths and token counts are those of the source. *)
(*  - An Optional value is a sequence: <<>> is None, <<v>> is v.           *)
(*  - latency is in whole milliseconds, cost in micro-dollars (1e-6 $),    *)
(*    the uniform draws of the mock metrics in thousandths.                *)
(*  - runs is a history variable: one record per (configuration, run)      *)
(*    unit, written by the actions at the places of the code that decide   *)
(*    the unit's outcome.  The code never reads it.                        *)
(***************************************************************************)
EXTENDS Integers, Sequences, FiniteSets, TLC

VARIABLES
    demo_mode,          \* LLMService.demo_mode
    openai_client,      \* LLMService.openai_client is not None
    anthropic_client,   \* LLMService.anthropic_client is not None
    hf_pipeline,        \* LLMService.hf_pipeline is not None
    request,            \* the ExperimentRequest being served
    ci,                 \* run_experiment: index of model_config in model_configs (1-based)
    run_num,            \* run_experiment: run_num of range(num_runs)
    all_responses,      \* run_experiment: all_responses
    background_tasks,   \* run_experiment: tasks added to background_tasks
    pc,                 \* where the request handler is suspended
    start_time,         \* generate_response: start_time
    now,                \* time.time(), in ms
    experiment_response, \* what run_experiment returned, None before it returns
    runs,               \* history: what happened to each unit
    experiment_id,      \* run_experiment: experiment_id
    uuids,              \* how many values uuid.uuid4() has handed out
    experiments,        \* DataService: the rows of table experiments, in insertion order
    tasks_run,          \* how many of background_tasks have been run
    rating_reply        \* what update_experiment_rating answered last, None before

vars == <<demo_mode, openai_client, anthropic_client, hf_pipeline, request, ci,
          run_num, all_responses, background_tasks, pc, start_time, now,
          experiment_response, runs, experiment_id, uuids, experiments, tasks_run,
          rating_reply>>

service == <<demo_mode, openai_client, anthropic_client, hf_pipeline>>

\* the data service, and what the handler keeps of it
store == <<experiment_id, uuids, experiments, tasks_run, rating_reply>>

(***************************************************************************)
(* Bounds of the model.                                                    *)
(***************************************************************************)
MaxUnits == 2      \* an experiment has at most this many (configuration, run) units
MaxParts == 2      \* an error message of SpecDispatch is made of at most this many fragments
MaxPieces == 4     \* a response text of SpecMetrics is made of at most this many pieces
MaxTokens == 5     \* a response text of SpecCost has at most this many tokens

None == <<>>
Some(v) == <<v>>

(***************************************************************************)
(* Text helpers: what str.lower(), `in` and str.split() do.                *)
(***************************************************************************)
UpperToLower ==
    [A |-> "a", B |-> "b", C |-> "c", D |-> "d", E |-> "e", F |-> "f", G |-> "g",
     H |-> "h", I |-> "i", J |-> "j", K |-> "k", L |-> "l", M |-> "m", N |-> "n",
     O |-> "o", P |-> "p", Q |-> "q", R |-> "r", S |-> "s", T |-> "t", U |-> "u",
     V |-> "v", W |-> "w", X |-> "x", Y |-> "y", Z |-> "z"]

\* the text of a string literal
RECURSIVE Chars(_)
Chars(str) ==
    IF Len(str) = 0 THEN <<>>
    ELSE IF Len(str) = 1 THEN <<str>>
    ELSE LET half == Len(str) \div 2
         IN  Chars(SubSeq(str, 1, half)) \o Chars(SubSeq(str, half + 1, Len(str)))

LowerChar(c) == IF c \in DOMAIN UpperToLower THEN UpperToLower[c] ELSE c

\* str.lower(), one half of the text after the other
RECURSIVE lower(_)
lower(s) ==
    IF Len(s) = 0 THEN s
    ELSE IF Len(s) = 1 THEN <<LowerChar(s[1])>>
    ELSE LET half == Len(s) \div 2
         IN  lower(SubSeq(s, 1, half)) \o lower(SubSeq(s, half + 1, Len(s)))

\* Python's `kw in s` for strings
Contains(s, kw) ==
    \E i \in 1..(Len(s) - Len(kw) + 1) : SubSeq(s, i, i + Len(kw) - 1) = kw

IsSpace(c) == c \in {" ", "\n", "\t", "\r"}

\* the positions where a token of s.split() starts
TokenStarts(s) ==
    LET spaces == {i \in 1..Len(s) : IsSpace(s[i])}
    IN  {i \in 1..Len(s) : i \notin spaces /\ (i = 1 \/ (i - 1) \in spaces)}

\* len(s.split())
WordCount(s) == Cardinality(TokenStarts(s))

(***************************************************************************)
(* Error classification: the except block of generate_response.            *)
(***************************************************************************)
QuotaKeywords ==
    <<Chars("quota"), Chars("rate limit"), Chars("429"), Chars("insufficient_quota"),
      Chars("exceeded")>>
AuthKeywords ==
    <<Chars("authentication"), Chars("api key"), Chars("unauthorized"), Chars("401")>>

\* any(keyword in error_message for keyword in keywords)
any_keyword_in(error_message, keywords) ==
    \E k \in 1..Len(keywords) : Contains(error_message, keywords[k])

classify_auth_first(e) ==
    LET error_message == lower(e)
    IN  IF any_keyword_in(error_message, AuthKeywords) THEN "Auth"
        ELSE IF any_keyword_in(error_message, QuotaKeywords) THEN "Quota"
        ELSE "Other"

\* error_message = str(e).lower(); the quota test comes first, then the auth test
classify(e) ==
    LET error_message == lower(e)
    IN  IF any_keyword_in(error_message, QuotaKeywords) THEN "Quota"
        ELSE IF any_keyword_in(error_message, AuthKeywords) THEN "Auth"
        ELSE "Other"

(***************************************************************************)
(* Metrics engine.  A score is a fraction <<numerator, denominator>>.      *)
(***************************************************************************)
\* micro-dollars per token: the $ per 1000 tokens of cost_per_1k_tokens
cost_per_1k_tokens ==
    [m \in {"gpt-4", "gpt-3.5-turbo", "claude-3-opus", "claude-3-sonnet"} |->
        CASE m = "gpt-4" -> 30
          [] m = "gpt-3.5-turbo" -> 2
          [] m = "claude-3-opus" -> 15
          [] m = "claude-3-sonnet" -> 3]

DefaultRate == 1

_estimate_cost_table_only(token_count, model_config) ==
    IF model_config.model_name \in DOMAIN cost_per_1k_tokens
    THEN token_count * cost_per_1k_tokens[model_config.model_name]
    ELSE 0

_estimate_cost(token_count, model_config) ==
    LET rate == IF model_config.model_name \in DOMAIN cost_per_1k_tokens
                THEN cost_per_1k_tokens[model_config.model_name]
                ELSE DefaultRate
    IN  token_count * rate

\* the token of s.split() that starts at position i
TokenAt(s, i) ==
    LET ends == {j \in i..Len(s) : j = Len(s) \/ IsSpace(s[j + 1])}
        last == CHOOSE j \in ends : \A k \in ends : j <= k
    IN  SubSeq(s, i, last)

positive_words ==
    {Chars("good"), Chars("great"), Chars("excellent"), Chars("amazing"),
     Chars("wonderful"), Chars("fantastic")}
negative_words ==
    {Chars("bad"), Chars("terrible"), Chars("awful"), Chars("horrible"),
     Chars("poor"), Chars("disappointing")}

_calculate_sentiment_unlowered(text) ==
    LET positive_count == Cardinality({i \in TokenStarts(text) : TokenAt(text, i) \in positive_words})
        negative_count == Cardinality({i \in TokenStarts(text) : TokenAt(text, i) \in negative_words})
    IN  IF positive_count + negative_count = 0
        THEN <<0, 1>>
        ELSE <<positive_count - negative_count, positive_count + negative_count>>

_calculate_sentiment(text) ==
    LET low == lower(text)
        positive_count == Cardinality({i \in TokenStarts(low) : TokenAt(low, i) \in positive_words})
        negative_count == Cardinality({i \in TokenStarts(low) : TokenAt(low, i) \in negative_words})
    IN  IF positive_count + negative_count = 0
        THEN <<0, 1>>
        ELSE <<positive_count - negative_count, positive_count + negative_count>>

IsVowel(c) == c \in {"a", "e", "i", "o", "u", "y"}

_count_syllables(w) ==
    LET word == lower(w)
        groups == {i \in 1..Len(word) : /\ IsVowel(word[i])
                                        /\ (i = 1 \/ ~IsVowel(word[i - 1]))}
        syllable_count == Cardinality(groups)
                          - (IF Len(word) > 0 /\ word[Len(word)] = "e" THEN 1 ELSE 0)
    IN  IF syllable_count < 1 THEN 1 ELSE syllable_count

RECURSIVE SumOver(_, _)
SumOver(f, S) ==
    IF S = {} THEN 0
    ELSE LET x == CHOOSE y \in S : TRUE IN f[x] + SumOver(f, S \ {x})

IsStop(c) == c \in {".", "!", "?"}

\* len(re.split(r'[.!?]+', text)): one more than the number of runs of . ! ?
SentenceCount(text) ==
    1 + Cardinality({i \in 1..Len(text) : /\ IsStop(text[i])
                                          /\ (i = 1 \/ ~IsStop(text[i - 1]))})

_calculate_readability_unclamped(text) ==
    LET sentences == SentenceCount(text)
        words == WordCount(text)
        syllables == SumOver([i \in TokenStarts(text) |-> _count_syllables(TokenAt(text, i))],
                             TokenStarts(text))
    IN  IF sentences = 0 \/ words = 0 THEN <<0, 1>>
        ELSE <<206835 * sentences * words - 1015 * words * words
               - 84600 * syllables * sentences, 100000 * sentences * words>>

\* score = 206.835 - 1.015*(words/sentences) - 84.6*(syllables/words), clamped to
\* [0, 100] and divided by 100; all of it multiplied by 1000*sentences*words
_calculate_readability(text) ==
    LET sentences == SentenceCount(text)
        words == WordCount(text)
        syllables == SumOver([i \in TokenStarts(text) |-> _count_syllables(TokenAt(text, i))],
                             TokenStarts(text))
        unit == 1000 * sentences * words
        score == 206835 * sentences * words - 1015 * words * words
                 - 84600 * syllables * sentences
        clamped == IF score < 0 THEN 0 ELSE IF score > 100 * unit THEN 100 * unit ELSE score
    IN  IF sentences = 0 \/ words = 0 THEN <<0, 1>> ELSE <<clamped, 100 * unit>>

SegmentLengths_with_blank(text) ==
    LET n == Len(text)
        dots == {i \in 1..n : text[i] = "."}
        sep(i) == i < 1 \/ IsSpace(text[i]) \/ text[i] = "."
        starts == {i \in 1..n : ~sep(i) /\ sep(i - 1)}
        begins == {1} \cup {d + 1 : d \in dots}
        count(b) == Cardinality({i \in starts : /\ i >= b
                                               /\ \A d \in dots : d >= b => i < d})
    IN  [b \in begins |-> count(b)]

\* the word counts of the non-blank segments of text.split('.')
SegmentLengths(text) ==
    LET n == Len(text)
        dots == {i \in 1..n : text[i] = "."}
        sep(i) == i < 1 \/ IsSpace(text[i]) \/ text[i] = "."
        starts == {i \in 1..n : ~sep(i) /\ sep(i - 1)}
        \* a segment begins at 1 or right after a dot, and runs to the next dot
        begins == {1} \cup {d + 1 : d \in dots}
        count(b) == Cardinality({i \in starts : /\ i >= b
                                               /\ \A d \in dots : d >= b => i < d})
    IN  [b \in {c \in begins : count(c) > 0} |-> count(b)]

_calculate_coherence(text) ==
    LET lengths == SegmentLengths(text)
        n == Cardinality(DOMAIN lengths)
        total == SumOver(lengths, DOMAIN lengths)
        squares == SumOver([b \in DOMAIN lengths |-> lengths[b] * lengths[b]], DOMAIN lengths)
    IN  IF ~Contains(text, <<".">>) THEN <<1, 1>>          \* len(sentences) < 2
        ELSE IF n = 0 THEN <<0, 1>>                     \* not lengths
        ELSE IF total >= n                              \* max(avg_length, 1) = avg_length
             THEN <<n * total, n * total + n * squares - total * total>>
             ELSE <<n * n, n * n + n * squares - total * total>>

TypeErrorNoLen == Chars("object of type 'NoneType' has no len()")

\* The result of a call: [raised |-> FALSE, value |-> v] or [raised |-> TRUE, message |-> m]
Returned(v) == [raised |-> FALSE, value |-> v]
Raised(m) == [raised |-> TRUE, message |-> m]

_calculate_metrics_negated_latency(response, latency_ms, model_config) ==
    IF response = None
    THEN Raised(TypeErrorNoLen)
    ELSE Returned([response_length |-> Len(response[1]),
                   token_count |-> WordCount(response[1]),
                   latency_ms |-> 0 - latency_ms,
                   cost_estimate |-> _estimate_cost(WordCount(response[1]), model_config),
                   sentiment_score |-> Some(_calculate_sentiment(response[1])),
                   readability_score |-> Some(_calculate_readability(response[1])),
                   coherence_score |-> Some(_calculate_coherence(response[1]))])

\* response is Optional: len(None) raises TypeError in the try block, and again in
\* the except block that was to return the basic metrics, so the call raises.
_calculate_metrics(response, latency_ms, model_config) ==
    IF response = None
    THEN Raised(TypeErrorNoLen)
    ELSE LET text == response[1]
             token_count == WordCount(text)
         IN  Returned([response_length |-> Len(text),
                       token_count |-> token_count,
                       latency_ms |-> latency_ms,
                       cost_estimate |-> _estimate_cost(token_count, model_config),
                       sentiment_score |-> Some(_calculate_sentiment(text)),
                       readability_score |-> Some(_calculate_readability(text)),
                       coherence_score |-> Some(_calculate_coherence(text))])

(***************************************************************************)
(* The mock generator: _generate_demo_response.                            *)
(***************************************************************************)
demo_responses_no_huggingface ==
    [openai |-> <<Chars("# **Demo Mode Response** - This simulates OpenAI's GPT response.")>>,
     anthropic |-> <<Chars("# **Demo Mode Response** - This simulates Claude's response style.")>>,
     huggingface |-> <<>>]

demo_responses ==
    [openai |-> <<
        Chars("# **Demo Mode Response** - This simulates OpenAI's GPT response. In production, this would be generated by the actual OpenAI API with full language model capabilities."),
        Chars("# **Mock Response** - This demonstrates how OpenAI's models would respond to your prompt. The real implementation connects to OpenAI's API for authentic AI-generated content."),
        Chars("# **Playground Demo** - This sample response shows the expected output format from OpenAI's language models. Actual deployment uses live API connections.")
     >>,
     anthropic |-> <<
        Chars("# **Demo Mode Response** - This simulates Claude's response style. In production, Anthropic's AI assistant would provide thoughtful, nuanced responses with strong reasoning capabilities."),
        Chars("# **Mock Response** - This demonstrates Claude's approach to helpful, harmless, and honest responses. Real deployment connects to Anthropic's API."),
        Chars("# **Playground Demo** - This sample shows how Claude typically structures detailed, ethical responses. Actual implementation uses live Anthropic API.")
     >>,
     huggingface |-> <<
        Chars("# **Demo Mode Response** - This simulates output from Hugging Face models. Production deployment would use actual open-source transformer models from the Hub."),
        Chars("# **Mock Response** - This demonstrates the variety of responses possible with Hugging Face's ecosystem of community models."),
        Chars("# **Playground Demo** - This sample shows typical output from open-source language models. Real implementation connects to Hugging Face inference.")
     >>]

DefaultDemoResponses == <<Chars("# **Demo Mode** - Mock response for testing purposes.")>>

\* responses = demo_responses.get(model_config.provider, [...])
demo_templates(config) ==
    IF config.provider \in DOMAIN demo_responses
    THEN demo_responses[config.provider]
    ELSE DefaultDemoResponses

\* str(e) of the IndexError random.choice raises for an empty list
EmptyChoiceError == Chars("Cannot choose from an empty sequence")

FallbackHeader == Chars("## **API Quota/Auth Error - Fallback Mode Active**\n\n")
FallbackFooter ==
    Chars("\n\n*Note: This demo response was triggered due to API quota limits or authentication issues. Please check your API keys and quota status.*")

PromptPrefixLen == 100

PromptNoteHead == Chars("\n\n# *Your prompt: '")
PromptNoteTail ==
    Chars("' - This showcases the interactive nature of the prompt engineering playground.*")
Ellipsis == Chars("...")
QuestionWord == Chars("question")

PromptNote(prompt) ==
    PromptNoteHead
    \o SubSeq(prompt, 1, IF Len(prompt) < PromptPrefixLen THEN Len(prompt) ELSE PromptPrefixLen)
    \o (IF Len(prompt) > PromptPrefixLen THEN Ellipsis ELSE <<>>)
    \o PromptNoteTail

\* What the random module hands out during one call: the sleep, the index of
\* random.choice, and the three uniform draws of the mock metrics.  Samples of
\* uniform(0.5, 2.0) s, uniform(0.0001, 0.001) $, uniform(0.3, 0.8), uniform(0.6, 0.9).
MockDraws ==
    {[sleep_ms |-> 500,  choice |-> 1, cost |-> 100,  sentiment |-> 300, readability |-> 600],
     [sleep_ms |-> 2000, choice |-> 2, cost |-> 1000, sentiment |-> 800, readability |-> 600],
     [sleep_ms |-> 1250, choice |-> 3, cost |-> 550,  sentiment |-> 300, readability |-> 900]}

\* the draws of Spec
SampleDraws == {d \in MockDraws : d.choice <= 2}

\* The part of _generate_demo_response after the sleep; t is time.time() then.
_generate_demo_response(demo, prompt, model_config, start, t, draw) ==
    LET is_fallback_mode == ~demo
        responses == demo_templates(model_config)
        chosen == responses[((draw.choice - 1) % Len(responses)) + 1]
        wrapped == IF is_fallback_mode THEN FallbackHeader \o chosen \o FallbackFooter
                   ELSE chosen
        response_text == IF Contains(lower(prompt), QuestionWord) \/ Contains(prompt, <<"?">>)
                         THEN wrapped \o PromptNote(prompt)
                         ELSE wrapped
        latency == t - start
        word_count == WordCount(response_text)
        token_count == (word_count * 13) \div 10
        prompt_tenths == WordCount(prompt) * 13
    IN  [response |-> response_text,
         metrics |-> [response_length |-> Len(response_text),
                      token_count |-> token_count,
                      latency_ms |-> latency,
                      cost_estimate |-> draw.cost,
                      sentiment_score |-> Some(<<draw.sentiment, 1000>>),
                      readability_score |-> Some(<<draw.readability, 1000>>),
                      coherence_score |-> None],
         \* prompt_tokens and total_tokens are floats: kept in tenths of a token
         token_usage |-> [prompt_tokens |-> prompt_tenths,
                          completion_tokens |-> token_count,
                          total_tokens |-> prompt_tenths + 10 * token_count],
         model_info |-> [provider |-> model_config.provider,
                         model |-> model_config.model_name,
                         demo_mode |-> TRUE]]

(***************************************************************************)
(* Aggregation: calculate_aggregate_metrics.  A dict is a function on its  *)
(* keys; an average is the fraction <<sum, count>>.                        *)
(***************************************************************************)
EmptyDict == [k \in {} |-> 0]

RECURSIVE SeqSum(_)
SeqSum(q) == IF Len(q) = 0 THEN 0 ELSE Head(q) + SeqSum(Tail(q))

SeqMin_first(q) == q[1]

SeqMin(q) == CHOOSE v \in {q[i] : i \in DOMAIN q} : \A i \in DOMAIN q : v <= q[i]

SeqMax_last(q) == q[Len(q)]

SeqMax(q) == CHOOSE v \in {q[i] : i \in DOMAIN q} : \A i \in DOMAIN q : v >= q[i]

metrics_keys == <<"response_length", "token_count", "latency_ms", "cost_estimate">>

CountErrors(responses) == Cardinality({i \in DOMAIN responses : "error" \in DOMAIN responses[i]})

calculate_aggregate_metrics_unguarded(responses) ==
    LET measured == SelectSeq(responses, LAMBDA r : "metrics" \in DOMAIN r)
        values(key) == [i \in 1..Len(measured) |-> measured[i].metrics[key]]
        stats(key) ==
            IF Len(measured) = 0 THEN EmptyDict
            ELSE (("avg_" \o key) :> <<SeqSum(values(key)), Len(measured)>>)
                 @@ (("min_" \o key) :> SeqMin(values(key)))
                 @@ (("max_" \o key) :> SeqMax(values(key)))
    IN  stats(metrics_keys[1]) @@ stats(metrics_keys[2])
        @@ stats(metrics_keys[3]) @@ stats(metrics_keys[4])
        @@ ("total_responses" :> Len(responses))
        @@ ("success_rate" :> <<Len(responses), Len(responses) + CountErrors(responses)>>)

calculate_aggregate_metrics_scored_only(responses) ==
    IF Len(responses) = 0 THEN EmptyDict
    ELSE
      LET measured == SelectSeq(responses, LAMBDA r : /\ "metrics" \in DOMAIN r
                                                      /\ r.metrics.coherence_score # None)
          values(key) == [i \in 1..Len(measured) |-> measured[i].metrics[key]]
          stats(key) ==
              IF Len(measured) = 0 THEN EmptyDict
              ELSE (("avg_" \o key) :> <<SeqSum(values(key)), Len(measured)>>)
                   @@ (("min_" \o key) :> SeqMin(values(key)))
                   @@ (("max_" \o key) :> SeqMax(values(key)))
      IN  stats(metrics_keys[1]) @@ stats(metrics_keys[2])
          @@ stats(metrics_keys[3]) @@ stats(metrics_keys[4])
          @@ ("total_responses" :> Len(measured))
          @@ ("success_rate" :> <<Len(measured), Len(responses) + CountErrors(responses)>>)

calculate_aggregate_metrics(responses) ==
    IF Len(responses) = 0 THEN EmptyDict
    ELSE
      LET measured == SelectSeq(responses, LAMBDA r : "metrics" \in DOMAIN r)
          values(key) == [i \in 1..Len(measured) |-> measured[i].metrics[key]]
          stats(key) ==
              IF Len(measured) = 0 THEN EmptyDict
              ELSE (("avg_" \o key) :> <<SeqSum(values(key)), Len(measured)>>)
                   @@ (("min_" \o key) :> SeqMin(values(key)))
                   @@ (("max_" \o key) :> SeqMax(values(key)))
      IN  stats(metrics_keys[1]) @@ stats(metrics_keys[2])
          @@ stats(metrics_keys[3]) @@ stats(metrics_keys[4])
          @@ ("total_responses" :> Len(responses))
          @@ ("success_rate" :> <<Len(responses), Len(responses) + CountErrors(responses)>>)

(***************************************************************************)
(* The environment: keys, requests, what a provider answers.               *)
(***************************************************************************)
OpenAIPlaceholder == "your_openai_api_key_here"
AnthropicPlaceholder == "your_anthropic_api_key_here"

\* os.getenv of an API key
KeyValues(placeholder) == {None, Some(""), Some(placeholder), Some("sk-test-key")}

\* ModelConfig: the sampling parameters (temperature, max_tokens, top_p and the
\* penalties) are only handed to the provider and are left out.
Configs ==
    {[provider |-> "openai", model_name |-> "gpt-3.5-turbo"],
     [provider |-> "anthropic", model_name |-> "claude-3-sonnet"],
     [provider |-> "huggingface", model_name |-> "gpt2"]}

Prompts == {Chars("Say hi"), Chars("What is the capital of France?")}

\* ExperimentRequest, with at most `units` (configuration, run) units
Requests(units) ==
    {r \in [prompt : Prompts,
            model_configs : UNION {[1..k -> Configs] : k \in 0..units},
            num_runs : 1..(IF units < 1 THEN 1 ELSE units)] :
        Len(r.model_configs) * r.num_runs <= units}

\* What the provider call of one dispatch does: it returns a completion after ms
\* milliseconds or raises.  content is Optional for OpenAI (message.content).
AdapterReplies(provider) ==
    CASE provider = "openai" ->
           {[content |-> Some(Chars("Paris is great. Good answer!")),
             usage |-> [prompt_tokens |-> 7, completion_tokens |-> 5, total_tokens |-> 12],
             ms |-> 120],
            [content |-> None,
             usage |-> [prompt_tokens |-> 7, completion_tokens |-> 0, total_tokens |-> 7],
             ms |-> 90]}
      [] provider = "anthropic" ->
           {[content |-> Some(Chars("The capital of France is Paris.")),
             usage |-> [input_tokens |-> 8, output_tokens |-> 7, total_tokens |-> 15],
             ms |-> 200]}
      [] provider = "huggingface" ->
           {[content |-> Some(Chars("Say hi to the bad. poor thing")),
             usage |-> [estimated_tokens |-> WordCount(Chars("Say hi to the bad. poor thing"))],
             ms |-> 900]}

Providers == {"openai", "anthropic", "huggingface"}

\* the replies of Spec and SpecDispatch
SampleReplies == [p \in Providers |-> AdapterReplies(p)]

\* str(e) of the errors a provider call raises in Spec
SampleErrors ==
    {Chars("Error code: 429 - insufficient_quota"),
     Chars("401 Unauthorized: bad API key"),
     Chars("service unavailable")}

\* how long a failing provider call takes, in ms
ErrorLatencies == {80}

\* pipeline("text-generation", model="gpt2", ...): it builds the handle or raises
PipelineOutcomes ==
    {[ok |-> TRUE, ms |-> 3000],
     [ok |-> FALSE, ms |-> 400, message |-> Chars("We couldn't connect to 'https://huggingface.co'")]}

\* str(e) of the errors a provider call raises in SpecDispatch: up to MaxParts fragments
Fragments ==
    {Chars("quota"), Chars("Rate "), Chars("Limit"), Chars("4"), Chars("29"),
     Chars("Exceeded"), Chars("API"), Chars(" key"), Chars("401"), Chars("time out")}

RECURSIVE MessagesOf(_)
MessagesOf(n) ==
    IF n = 0 THEN {<<>>}
    ELSE MessagesOf(n - 1) \cup {m \o f : m \in MessagesOf(n - 1), f \in Fragments}

Messages == MessagesOf(MaxParts)

(***************************************************************************)
(* LLMService.__init__ and _initialize_clients.                            *)
(***************************************************************************)
client_initialized_in_demo(demo, key, placeholder) ==
    key # None /\ key[1] # "" /\ key[1] # placeholder

\* `if self.demo_mode: return`, then `if key and key != placeholder: client = ...`
client_initialized(demo, key, placeholder) ==
    ~demo /\ key # None /\ key[1] # "" /\ key[1] # placeholder

\* uuid.uuid4(): the values handed out are taken to be pairwise different, the
\* n-th one is written n
uuid4(issued) == issued + 1

PendingRun ==
    [path |-> <<"Pending">>, adapter_calls |-> 0, fallback_calls |-> 0,
     handle_missing |-> FALSE, handle_created |-> FALSE, adapter_returned |-> FALSE,
     classified |-> "None", error |-> None, raised_by |-> "none", produced_by |-> "none",
     cancelled |-> FALSE, failed_after |-> None, slept |-> 0]

InitWith(requests) ==
    /\ demo_mode \in BOOLEAN
    /\ \E openai_key \in KeyValues(OpenAIPlaceholder) :
          openai_client = client_initialized(demo_mode, openai_key, OpenAIPlaceholder)
    /\ \E anthropic_key \in KeyValues(AnthropicPlaceholder) :
          anthropic_client = client_initialized(demo_mode, anthropic_key, AnthropicPlaceholder)
    /\ hf_pipeline = FALSE
    /\ request \in requests
    /\ ci = 1
    /\ run_num = 0
    /\ all_responses = <<>>
    /\ background_tasks = <<>>
    /\ pc = "loop"
    /\ start_time = 0
    /\ now = 0
    /\ experiment_response = None
    /\ runs = [u \in 1..(Len(request.model_configs) * request.num_runs) |-> PendingRun]
    /\ uuids = 1
    /\ experiment_id = uuid4(0)
    /\ experiments = <<>>
    /\ tasks_run = 0
    /\ rating_reply = None

Init == InitWith(Requests(MaxUnits))

(***************************************************************************)
(* run_experiment and generate_response.                                   *)
(***************************************************************************)
model_config == request.model_configs[ci]
unit == (ci - 1) * request.num_runs + run_num + 1
UnitsRemain == ci <= Len(request.model_configs)

\* the two for loops of run_experiment move on
Advance ==
    IF run_num + 1 < request.num_runs
    THEN /\ run_num' = run_num + 1
         /\ ci' = ci
    ELSE /\ run_num' = 0
         /\ ci' = ci + 1

client_missing_never(provider) == FALSE

\* `if not self.openai_client` / `if not self.anthropic_client`;
\* _generate_huggingface_response has no such test
client_missing(provider) ==
    CASE provider = "openai" -> ~openai_client
      [] provider = "anthropic" -> ~anthropic_client
      [] OTHER -> FALSE

OpenAINotInitialized == Chars("OpenAI client not initialized")
AnthropicNotInitialized == Chars("Anthropic client not initialized")

NotInitializedMessage(provider) ==
    IF provider = "openai" THEN OpenAINotInitialized ELSE AnthropicNotInitialized

\* the entry run_experiment appends for a response_data
response_entry(config, response_data, run_number) ==
    [model_config |-> config,
     response |-> response_data.response,
     metrics |-> response_data.metrics,
     token_usage |-> IF "token_usage" \in DOMAIN response_data
                     THEN response_data.token_usage ELSE EmptyDict,
     run_number |-> run_number]

error_entry(config, message, run_number) ==
    [model_config |-> config, error |-> message, run_number |-> run_number]

\* generate_response returned response_data: run_experiment lines 158-182
Succeed(response_data, r) ==
    /\ all_responses' = Append(all_responses,
                               response_entry(model_config, response_data, run_num + 1))
    /\ background_tasks' = Append(background_tasks,
           [experiment_id |-> experiment_id, prompt |-> request.prompt,
            model_configuration |-> model_config,
            response |-> response_data.response, metrics |-> response_data.metrics,
            run_number |-> run_num + 1])
    /\ Advance
    /\ pc' = "loop"
    /\ runs' = [runs EXCEPT ![unit] = r]

Fail_persisting(message, r) ==
    /\ all_responses' = Append(all_responses, error_entry(model_config, message, run_num + 1))
    /\ background_tasks' = Append(background_tasks,
           [experiment_id |-> experiment_id, prompt |-> request.prompt,
            model_configuration |-> model_config,
            response |-> message, metrics |-> EmptyDict,
            run_number |-> run_num + 1])
    /\ Advance
    /\ pc' = "loop"
    /\ runs' = [runs EXCEPT ![unit] = [path |-> Append(r.path, "Failed")] @@ r]

Fail_aborting(message, r) ==
    /\ all_responses' = Append(all_responses, error_entry(model_config, message, run_num + 1))
    /\ background_tasks' = background_tasks
    /\ run_num' = 0
    /\ ci' = Len(request.model_configs) + 1
    /\ pc' = "loop"
    /\ runs' = [runs EXCEPT ![unit] = [path |-> Append(r.path, "Failed")] @@ r]

\* generate_response raised: run_experiment lines 184-190
Fail(message, r) ==
    /\ all_responses' = Append(all_responses, error_entry(model_config, message, run_num + 1))
    /\ background_tasks' = background_tasks
    /\ Advance
    /\ pc' = "loop"
    /\ runs' = [runs EXCEPT ![unit] = [path |-> Append(r.path, "Failed")] @@ r]

\* the call of _generate_demo_response suspends in asyncio.sleep
EnterFallback(r) ==
    /\ pc' = "await_fallback"
    /\ runs' = [runs EXCEPT ![unit] = [fallback_calls |-> r.fallback_calls + 1] @@ r]
    /\ UNCHANGED <<all_responses, background_tasks, ci, run_num>>

should_fall_back_quota_only(message) == classify(message) = "Quota"

should_fall_back_always(message) == TRUE

\* the two keyword tests of the except block
should_fall_back(message) == classify(message) \in {"Quota", "Auth"}

HandleException_retrying(message, r) ==
    LET seen == [classified |-> classify(message), error |-> Some(message)] @@ r
    IN  IF should_fall_back(message)
        THEN /\ pc' = "await_adapter"
             /\ runs' = [runs EXCEPT ![unit] = [adapter_calls |-> r.adapter_calls + 1] @@ seen]
             /\ UNCHANGED <<all_responses, background_tasks, ci, run_num>>
        ELSE Fail(message, seen)

\* the except block of generate_response, lines 80-94
HandleException(message, r) ==
    LET seen == [classified |-> classify(message), error |-> Some(message)] @@ r
    IN  IF should_fall_back(message)
        THEN EnterFallback(seen)
        ELSE Fail(message, seen)

\* the handle generate_response would use for `provider` is not None
handle_present(provider) ==
    CASE provider = "openai" -> openai_client
      [] provider = "anthropic" -> anthropic_client
      [] OTHER -> hf_pipeline

\* history: generate_response was entered for the unit
Dispatched(r) ==
    [path |-> Append(r.path, "Dispatched"),
     handle_missing |-> ~handle_present(model_config.provider)] @@ r

\* demo mode: generate_response goes to _generate_demo_response
DispatchDemo ==
    /\ pc = "loop" /\ UnitsRemain
    /\ demo_mode
    /\ start_time' = now
    /\ EnterFallback(Dispatched(runs[unit]))
    /\ UNCHANGED <<service, request, now, experiment_response, store>>

\* the provider's client is None: the adapter raises ValueError before any call
DispatchUnavailable ==
    /\ pc = "loop" /\ UnitsRemain
    /\ ~demo_mode
    /\ client_missing(model_config.provider)
    /\ start_time' = now
    /\ HandleException(NotInitializedMessage(model_config.provider),
                       [raised_by |-> "unavailable", failed_after |-> Some(0)]
                       @@ Dispatched(runs[unit]))
    /\ UNCHANGED <<service, request, now, experiment_response, store>>

\* OpenAI / Anthropic with a client: the request is sent and the handler suspends
DispatchAdapter ==
    /\ pc = "loop" /\ UnitsRemain
    /\ ~demo_mode
    /\ model_config.provider \in {"openai", "anthropic"}
    /\ ~client_missing(model_config.provider)
    /\ start_time' = now
    /\ pc' = "await_adapter"
    /\ runs' = [runs EXCEPT ![unit] = [adapter_calls |-> 1] @@ Dispatched(@)]
    /\ UNCHANGED <<service, request, now, experiment_response, all_responses,
                   background_tasks, ci, run_num, store>>

DispatchHuggingface_rebuilding ==
    /\ pc = "loop" /\ UnitsRemain
    /\ ~demo_mode
    /\ model_config.provider = "huggingface"
    /\ start_time' = now
    /\ \E o \in PipelineOutcomes :
          /\ now' = now + o.ms
          /\ IF o.ok
             THEN /\ hf_pipeline' = TRUE
                  /\ pc' = "await_adapter"
                  /\ runs' = [runs EXCEPT ![unit] =
                                [adapter_calls |-> 1, handle_created |-> TRUE]
                                @@ Dispatched(@)]
                  /\ UNCHANGED <<all_responses, background_tasks, ci, run_num>>
             ELSE /\ hf_pipeline' = hf_pipeline
                  /\ HandleException(o.message,
                                     [raised_by |-> "adapter", failed_after |-> Some(o.ms)]
                                     @@ Dispatched(runs[unit]))
    /\ UNCHANGED <<demo_mode, openai_client, anthropic_client, request, experiment_response,
                   store>>

\* Hugging Face: the pipeline is built on first use, then the model runs in the executor
DispatchHuggingface ==
    /\ pc = "loop" /\ UnitsRemain
    /\ ~demo_mode
    /\ model_config.provider = "huggingface"
    /\ start_time' = now
    /\ IF hf_pipeline
       THEN /\ pc' = "await_adapter"
            /\ runs' = [runs EXCEPT ![unit] = [adapter_calls |-> 1] @@ Dispatched(@)]
            /\ UNCHANGED <<hf_pipeline, now, all_responses, background_tasks, ci, run_num>>
       ELSE \E o \in PipelineOutcomes :
              /\ now' = now + o.ms
              /\ IF o.ok
                 THEN /\ hf_pipeline' = TRUE
                      /\ pc' = "await_adapter"
                      /\ runs' = [runs EXCEPT ![unit] =
                                    [adapter_calls |-> 1, handle_created |-> TRUE]
                                    @@ Dispatched(@)]
                      /\ UNCHANGED <<all_responses, background_tasks, ci, run_num>>
                 ELSE /\ hf_pipeline' = hf_pipeline
                      /\ HandleException(o.message,
                                         [raised_by |-> "adapter", failed_after |-> Some(o.ms)]
                                         @@ Dispatched(runs[unit]))
    /\ UNCHANGED <<demo_mode, openai_client, anthropic_client, request, experiment_response,
                   store>>

\* the provider answered: latency, metrics, the result dict (lines 67-78)
AdapterReturns(replies) ==
    /\ pc = "await_adapter"
    /\ \E reply \in replies[model_config.provider] :
          LET end_time == now + reply.ms
              latency_ms == end_time - start_time
              metrics == _calculate_metrics(reply.content, latency_ms, model_config)
          IN  /\ now' = end_time
              /\ IF metrics.raised
                 THEN HandleException(metrics.message,
                                      [raised_by |-> "metrics", adapter_returned |-> TRUE,
                                       failed_after |-> Some(latency_ms)]
                                      @@ runs[unit])
                 ELSE Succeed([response |-> reply.content[1],
                               token_usage |-> reply.usage,
                               metrics |-> metrics.value,
                               model_config |-> model_config],
                              [path |-> Append(runs[unit].path, "Succeeded"),
                               produced_by |-> "adapter",
                               adapter_returned |-> TRUE] @@ runs[unit])
    /\ UNCHANGED <<service, request, start_time, experiment_response, store>>

\* the provider call raised an error with one of `messages` as its text
AdapterRaises(messages) ==
    /\ pc = "await_adapter"
    /\ \E message \in messages, ms \in ErrorLatencies :
          /\ now' = now + ms
          /\ HandleException(message,
                             [raised_by |-> "adapter",
                              failed_after |-> Some(now + ms - start_time)] @@ runs[unit])
    /\ UNCHANGED <<service, request, start_time, experiment_response, store>>

FallbackCompletes_clock_restarted(draws) ==
    /\ pc = "await_fallback"
    /\ \E draw \in draws :
          /\ now' = now + draw.sleep_ms
          /\ IF Len(demo_templates(model_config)) = 0
             THEN Fail(EmptyChoiceError, [raised_by |-> "fallback"] @@ runs[unit])
             ELSE Succeed(_generate_demo_response(demo_mode, request.prompt, model_config,
                                                  now, now', draw),
                          [path |-> Append(runs[unit].path, "SucceededViaFallback"),
                           produced_by |-> "fallback",
                           slept |-> draw.sleep_ms] @@ runs[unit])
    /\ UNCHANGED <<service, request, start_time, experiment_response, store>>

\* asyncio.sleep is over: the rest of _generate_demo_response
FallbackCompletes(draws) ==
    /\ pc = "await_fallback"
    /\ \E draw \in draws :
          /\ now' = now + draw.sleep_ms
          /\ IF Len(demo_templates(model_config)) = 0
             THEN \* random.choice raises; nothing in generate_response catches it
                  Fail(EmptyChoiceError, [raised_by |-> "fallback"] @@ runs[unit])
             ELSE Succeed(_generate_demo_response(demo_mode, request.prompt, model_config,
                                                  start_time, now', draw),
                          [path |-> Append(runs[unit].path, "SucceededViaFallback"),
                           produced_by |-> "fallback",
                           slept |-> draw.sleep_ms] @@ runs[unit])
    /\ UNCHANGED <<service, request, start_time, experiment_response, store>>

\* the loops are over: aggregate and return the ExperimentResponse (lines 192-205)
Return ==
    /\ pc = "loop" /\ ~UnitsRemain
    /\ LET successful_responses ==
               SelectSeq(all_responses, LAMBDA r : "error" \notin DOMAIN r)
       IN  experiment_response' =
               Some([id |-> experiment_id,
                     responses |-> all_responses,
                     metrics |-> calculate_aggregate_metrics(successful_responses)])
    /\ pc' = "returned"
    /\ UNCHANGED <<service, request, ci, run_num, all_responses, background_tasks,
                   start_time, now, runs, store>>

\* the handler's task is cancelled while it is suspended in the provider call or in
\* asyncio.sleep: CancelledError is a BaseException, so neither the except Exception
\* of generate_response nor the two of run_experiment catches it and the handler ends
Cancel ==
    /\ pc \in {"await_adapter", "await_fallback"}
    /\ pc' = "cancelled"
    /\ runs' = [runs EXCEPT ![unit] = [cancelled |-> TRUE] @@ @]
    /\ UNCHANGED <<service, request, ci, run_num, all_responses, background_tasks,
                   start_time, now, experiment_response, store>>

Next ==
    \/ DispatchDemo
    \/ DispatchUnavailable
    \/ DispatchAdapter
    \/ DispatchHuggingface
    \/ AdapterReturns(SampleReplies)
    \/ AdapterRaises(SampleErrors)
    \/ FallbackCompletes(SampleDraws)
    \/ Return

Spec == Init /\ [][Next]_vars

\* the row DataService.save_experiment inserts for an ExperimentResult; the columns
\* user_rating and notes are not in the INSERT and stay NULL
experiment_row(id, experiment_result) ==
    [id |-> id,
     prompt |-> experiment_result.prompt,
     model_provider |-> experiment_result.model_configuration.provider,
     model_name |-> experiment_result.model_configuration.model_name,
     model_config |-> experiment_result.model_configuration,
     response |-> experiment_result.response,
     metrics |-> experiment_result.metrics,
     experiment_group |-> experiment_result.experiment_id,
     user_rating |-> None,
     notes |-> None]

\* after the response is sent the next background task runs:
\* save_experiment_background calls DataService.save_experiment, which draws an id
\* and inserts the row; an sqlite3 error is logged and goes no further
SaveExperiment ==
    /\ pc = "returned"
    /\ tasks_run < Len(background_tasks)
    /\ uuids' = uuids + 1
    /\ \E inserted \in BOOLEAN :
          experiments' = IF inserted
                         THEN Append(experiments,
                                     experiment_row(uuid4(uuids),
                                                    background_tasks[tasks_run + 1]))
                         ELSE experiments
    /\ tasks_run' = tasks_run + 1
    /\ UNCHANGED <<service, request, ci, run_num, all_responses, background_tasks, pc,
                   start_time, now, experiment_response, runs, experiment_id,
                   rating_reply>>

\* Experiments on one prompt, for the summary and the list of entries
InitSummary == InitWith({r \in Requests(MaxUnits) : r.prompt = Chars("Say hi")})

SpecSummary == InitSummary /\ [][Next]_vars

\* An experiment and the background tasks it leaves
NextPersist ==
    \/ Next
    \/ SaveExperiment

SpecPersist == InitSummary /\ [][NextPersist]_vars

\* DataService.update_experiment_rating: UPDATE experiments SET user_rating, notes
\* WHERE id = experiment_id; the result is the table and cursor.rowcount > 0
set_experiment_rating(rows, id, rating, notes) ==
    [rows |-> [i \in DOMAIN rows |->
                 IF rows[i].id = id
                 THEN [rows[i] EXCEPT !.user_rating = Some(rating), !.notes = notes]
                 ELSE rows[i]],
     success |-> \E i \in DOMAIN rows : rows[i].id = id]

\* the ratings a client sends, inside and outside 1..5
RatingValues == {0, 1, 5, 6}

\* the handler update_experiment_rating of main.py.  Its whole body is one try
\* whose except Exception answers 500; HTTPException is an Exception, so the 400
\* and the 404 raised inside the try end there as well
UpdateRating ==
    /\ pc = "returned"
    /\ \E id \in 1..(uuids + 1), rating \in RatingValues, sqlite_error \in BOOLEAN :
          LET in_range == 1 <= rating /\ rating <= 5
              updated == set_experiment_rating(experiments, id, rating, None)
              raised == IF ~in_range THEN Some(400)
                        ELSE IF sqlite_error THEN Some(0)
                        ELSE IF ~updated.success THEN Some(404)
                        ELSE None
          IN  /\ experiments' = IF in_range /\ ~sqlite_error
                                THEN updated.rows ELSE experiments
              /\ rating_reply' =
                     Some([experiment_id |-> id,
                           rating |-> rating,
                           status |-> IF raised # None THEN 500 ELSE 200,
                           raised_inside |-> raised,
                           data_service_raised |-> in_range /\ sqlite_error,
                           matched |-> updated.success,
                           ratings_changed |-> experiments' # experiments])
    /\ UNCHANGED <<service, request, ci, run_num, all_responses, background_tasks, pc,
                   start_time, now, experiment_response, runs, experiment_id, uuids,
                   tasks_run>>

\* Demo-mode experiments on OpenAI configurations, their rows, and rating requests
InitRating ==
    /\ InitWith({r \in Requests(MaxUnits) :
                    /\ r.prompt = Chars("Say hi")
                    /\ \A i \in DOMAIN r.model_configs :
                          r.model_configs[i].provider = "openai"})
    /\ demo_mode

NextRating ==
    \/ DispatchDemo
    \/ FallbackCompletes(SampleDraws)
    \/ Return
    \/ SaveExperiment
    \/ UpdateRating

SpecRating == InitRating /\ [][NextRating]_vars

\* An experiment whose handler may be cancelled at a suspension point
NextCancel ==
    \/ Next
    \/ Cancel

SpecCancel == Init /\ [][NextCancel]_vars

\* One dispatch, with the error text drawn from Messages
InitDispatch ==
    /\ InitWith(Requests(1))
    /\ Len(request.model_configs) = 1

NextDispatch ==
    \/ DispatchDemo
    \/ DispatchUnavailable
    \/ DispatchAdapter
    \/ DispatchHuggingface
    \/ AdapterReturns(SampleReplies)
    \/ AdapterRaises(Messages)
    \/ FallbackCompletes(MockDraws)
    \/ Return

SpecDispatch == InitDispatch /\ [][NextDispatch]_vars

\* The response texts of SpecMetrics: up to MaxPieces pieces, one after the other
TextPieces ==
    {Chars("good"), Chars("Bad "), Chars("disappointing"), Chars("a"), Chars(" "),
     Chars("."), Chars("!")}

RECURSIVE TextsOf(_)
TextsOf(n) ==
    IF n = 0 THEN {<<>>}
    ELSE TextsOf(n - 1) \cup {t \o piece : t \in TextsOf(n - 1), piece \in TextPieces}

\* an OpenAI completion with text t
CompletionOf(t) ==
    [content |-> Some(t),
     usage |-> [prompt_tokens |-> 2, completion_tokens |-> Len(t), total_tokens |-> 2 + Len(t)],
     ms |-> 120]

TextReplies == [p \in Providers |-> {CompletionOf(t) : t \in TextsOf(MaxPieces)}]

\* One dispatch to OpenAI that is answered, with the text drawn from TextsOf(MaxPieces)
InitMetrics ==
    /\ InitWith({r \in Requests(1) : /\ Len(r.model_configs) = 1
                                      /\ r.model_configs[1].provider = "openai"
                                      /\ r.prompt = Chars("Say hi")})
    /\ ~demo_mode
    /\ openai_client

NextMetrics ==
    \/ DispatchAdapter
    \/ AdapterReturns(TextReplies)
    \/ Return

SpecMetrics == InitMetrics /\ [][NextMetrics]_vars

\* the model names of SpecCost: those of the table, and names the table does not have
CostConfigs ==
    {[provider |-> "openai", model_name |-> n] :
        n \in {"gpt-4", "gpt-3.5-turbo", "gpt-4o", "GPT-4"}}
    \cup {[provider |-> "anthropic", model_name |-> n] :
             n \in {"claude-3-opus", "claude-3-sonnet", "claude-3-haiku"}}

\* a text of n tokens
RECURSIVE WordRun(_)
WordRun(n) == IF n = 0 THEN <<>> ELSE WordRun(n - 1) \o Chars(" word")

CostReplies == [p \in Providers |-> {CompletionOf(WordRun(n)) : n \in 0..MaxTokens}]

\* Up to two runs of one configuration, each answered with a text of 0..MaxTokens tokens
InitCost ==
    /\ InitWith([prompt : {Chars("Say hi")},
                 model_configs : {<<c>> : c \in CostConfigs},
                 num_runs : {1, 2}])
    /\ ~demo_mode
    /\ openai_client
    /\ anthropic_client

NextCost ==
    \/ DispatchAdapter
    \/ AdapterReturns(CostReplies)
    \/ Return

SpecCost == InitCost /\ [][NextCost]_vars

(***************************************************************************)
(* Vocabulary of the properties.                                           *)
(***************************************************************************)
Last(q) == q[Len(q)]
Units == DOMAIN runs
Terminal(r) == Len(r.path) = 3
Outcome(r) == IF Terminal(r) THEN Last(r.path) ELSE "none"

\* the keyword sets as the specification lists them
QuotaSet ==
    {Chars("quota"), Chars("rate limit"), Chars("429"), Chars("insufficient_quota"),
     Chars("exceeded")}
AuthSet == {Chars("authentication"), Chars("api key"), Chars("unauthorized"), Chars("401")}

\* kw occurs in m at position i, letter case ignored
OccursAt(m, kw, i) == \A j \in 1..Len(kw) : LowerChar(m[i + j - 1]) = kw[j]
Mentions(m, kws) == \E kw \in kws : \E i \in 1..(Len(m) - Len(kw) + 1) : OccursAt(m, kw, i)

\* the adapter call of the run failed, with this text
AdapterFailed(r) == r.raised_by = "adapter" /\ r.error # None

IsErrorEntry(e) == "error" \in DOMAIN e
\* t is a text of the mock generator in fallback mode
IsFallbackText(t) ==
    /\ Len(t) > Len(FallbackHeader)
    /\ SubSeq(t, 1, Len(FallbackHeader)) = FallbackHeader

\* C1: with demo mode off, an adapter failure whose text mentions a Quota or an Auth
\* keyword leads to the mock generator, never to a failure: the run is never Failed,
\* the generator was called, and once the run is over its entry carries a mock text.
C1_QuotaAuthFallsBack ==
    \A u \in Units :
        (/\ ~demo_mode
         /\ AdapterFailed(runs[u])
         /\ Mentions(runs[u].error[1], QuotaSet \cup AuthSet))
        => /\ runs[u].fallback_calls = 1
           /\ Outcome(runs[u]) \in {"none", "SucceededViaFallback"}
           /\ Terminal(runs[u]) =>
                 /\ ~IsErrorEntry(all_responses[u])
                 /\ IsFallbackText(all_responses[u].response)

C1_Witness ==
    \E u \in Units :
        /\ ~demo_mode
        /\ AdapterFailed(runs[u])
        /\ Mentions(runs[u].error[1], AuthSet)
        /\ ~Mentions(runs[u].error[1], QuotaSet)
        /\ Outcome(runs[u]) = "SucceededViaFallback"

\* C2: with demo mode off, an adapter failure whose text mentions no Quota and no Auth
\* keyword is propagated: the run is Failed, its entry is an error entry with that
\* text, and the mock generator was not called.
C2_OtherPropagates ==
    \A u \in Units :
        (/\ ~demo_mode
         /\ AdapterFailed(runs[u])
         /\ ~Mentions(runs[u].error[1], QuotaSet \cup AuthSet))
        => /\ Outcome(runs[u]) = "Failed"
           /\ runs[u].fallback_calls = 0
           /\ IsErrorEntry(all_responses[u])
           /\ all_responses[u].error = runs[u].error[1]

C2_Witness ==
    \E u \in Units :
        /\ ~demo_mode
        /\ AdapterFailed(runs[u])
        /\ runs[u].adapter_calls = 1
        /\ ~Mentions(runs[u].error[1], QuotaSet \cup AuthSet)
        /\ Outcome(runs[u]) = "Failed"

WasDispatched(r) == Len(r.path) >= 2
ProviderOf(u) == request.model_configs[((u - 1) \div request.num_runs) + 1].provider

FailedUnavailable(u) ==
    /\ Outcome(runs[u]) = "Failed"
    /\ runs[u].raised_by = "unavailable"
    /\ runs[u].adapter_calls = 0
    /\ runs[u].fallback_calls = 0
    /\ ~runs[u].handle_created
    /\ IsErrorEntry(all_responses[u])
    /\ all_responses[u].error = NotInitializedMessage(ProviderOf(u))

\* C3 as stated: with demo mode off, a dispatch that finds no handle for its provider
\* fails at once with the configuration error, without a provider call and without
\* the mock generator, for each of the three providers.
C3_UnavailableFailsAllProviders ==
    \A u \in Units :
        (~demo_mode /\ WasDispatched(runs[u]) /\ runs[u].handle_missing)
        => FailedUnavailable(u)

\* C3 amended: that holds for OpenAI and Anthropic; for Hugging Face a missing
\* pipeline never is a configuration error: the dispatch builds the pipeline itself
\* and goes on to the provider call, or the build raises as an adapter error.
C3_UnavailableFails ==
    \A u \in Units :
        (~demo_mode /\ WasDispatched(runs[u]) /\ runs[u].handle_missing)
        => IF ProviderOf(u) \in {"openai", "anthropic"}
           THEN FailedUnavailable(u)
           ELSE /\ runs[u].raised_by # "unavailable"
                /\ \/ runs[u].handle_created /\ runs[u].adapter_calls = 1
                   \/ AdapterFailed(runs[u]) /\ runs[u].adapter_calls = 0

C3_Witness ==
    /\ \E u \in Units : ProviderOf(u) = "openai" /\ FailedUnavailable(u)
    /\ \E u \in Units : ProviderOf(u) = "anthropic" /\ FailedUnavailable(u)

\* C4: in demo mode no provider adapter is invoked and no client handle exists or is
\* created, whatever was dispatched so far; every dispatch went to the mock generator.
C4_DemoModeNoAdapter ==
    demo_mode =>
        /\ ~openai_client /\ ~anthropic_client /\ ~hf_pipeline
        /\ pc # "await_adapter"
        /\ \A u \in Units :
              /\ runs[u].adapter_calls = 0
              /\ ~runs[u].handle_created
              /\ runs[u].raised_by = "none"
              /\ WasDispatched(runs[u]) => runs[u].fallback_calls = 1
              /\ Outcome(runs[u]) \in {"none", "SucceededViaFallback"}

C4_Witness ==
    /\ demo_mode
    /\ Len(runs) >= 2
    /\ \A u \in Units : Outcome(runs[u]) = "SucceededViaFallback"
    /\ \E u \in Units : ProviderOf(u) = "huggingface"

\* C5: the class of an error text is Quota iff the text mentions a Quota keyword, Auth
\* iff it mentions no Quota keyword but an Auth keyword, and Other iff it mentions
\* neither, letter case ignored; a text that mentions both is Quota.
C5_ClassificationTable ==
    \A u \in Units :
        runs[u].error # None =>
            LET m == runs[u].error[1]
                class == runs[u].classified
            IN  /\ class \in {"Quota", "Auth", "Other"}
                /\ class = "Quota" <=> Mentions(m, QuotaSet)
                /\ class = "Auth" <=> (~Mentions(m, QuotaSet) /\ Mentions(m, AuthSet))
                /\ class = "Other" <=> (~Mentions(m, QuotaSet) /\ ~Mentions(m, AuthSet))

C5_Witness ==
    \E u \in Units :
        /\ runs[u].error # None
        /\ Mentions(runs[u].error[1], QuotaSet)
        /\ Mentions(runs[u].error[1], AuthSet)
        /\ runs[u].error[1] # lower(runs[u].error[1])
        /\ runs[u].classified = "Quota"

TerminalStates == {"Succeeded", "SucceededViaFallback", "Failed"}

\* C6: the states a run went through are Pending, then Dispatched, then one of
\* Succeeded, SucceededViaFallback, Failed, and nothing after it; within the dispatch
\* the adapter was invoked at most once and the mock generator at most once.
C6_RunStateMachine ==
    \A u \in Units :
        /\ Len(runs[u].path) \in 1..3
        /\ runs[u].path[1] = "Pending"
        /\ Len(runs[u].path) >= 2 => runs[u].path[2] = "Dispatched"
        /\ Len(runs[u].path) = 3 => runs[u].path[3] \in TerminalStates
        /\ runs[u].adapter_calls <= 1
        /\ runs[u].fallback_calls <= 1

C6_Witness ==
    \E u \in Units :
        /\ runs[u].path = <<"Pending", "Dispatched", "SucceededViaFallback">>
        /\ runs[u].adapter_calls = 1
        /\ runs[u].fallback_calls = 1

\* C7 as stated: a run ends SucceededViaFallback only if it was dispatched to an
\* adapter and the adapter call failed with an error classified Quota or Auth.
C7_FallbackOnlyAfterQuotaAuth ==
    \A u \in Units :
        Outcome(runs[u]) = "SucceededViaFallback"
        => AdapterFailed(runs[u]) /\ runs[u].classified \in {"Quota", "Auth"}

\* C7 amended: a run ends SucceededViaFallback only if demo mode is on (then no
\* adapter was involved at all), or it was dispatched to an adapter and the adapter
\* call failed with an error classified Quota or Auth.
C7_FallbackOnlyDemoOrQuotaAuth ==
    \A u \in Units :
        Outcome(runs[u]) = "SucceededViaFallback"
        => \/ demo_mode /\ runs[u].raised_by = "none" /\ runs[u].adapter_calls = 0
           \/ ~demo_mode /\ AdapterFailed(runs[u]) /\ runs[u].classified \in {"Quota", "Auth"}

C7_Witness ==
    /\ ~demo_mode
    /\ \E u \in Units :
          /\ Outcome(runs[u]) = "SucceededViaFallback"
          /\ runs[u].classified = "Auth"
    /\ \E u \in Units : Outcome(runs[u]) = "Succeeded"

\* C8: a dispatch ends Failed only if the adapter was unavailable or the adapter call
\* failed with an error classified Other; no failure comes from the metrics
\* computation or from the mock generator.
C8_FailedOnlyUnavailableOrOther ==
    \A u \in Units :
        Outcome(runs[u]) = "Failed"
        => \/ runs[u].raised_by = "unavailable"
           \/ AdapterFailed(runs[u]) /\ runs[u].classified = "Other"

\* C9: whatever the adapter returned (the text may be None), the dispatch succeeds and
\* its entry carries at least the basic metrics: an error of the metrics computation
\* never leaves the engine.
C9_MetricsErrorsContained ==
    \A u \in Units :
        runs[u].adapter_returned
        => /\ runs[u].raised_by # "metrics"
           /\ Outcome(runs[u]) = "Succeeded"
           /\ ~IsErrorEntry(all_responses[u])
           /\ {"response_length", "token_count", "latency_ms", "cost_estimate"}
                  \subseteq DOMAIN all_responses[u].metrics

\* the entry tells a reader that the mock generator produced it
MarkedFallback(e) ==
    \/ "is_fallback" \in DOMAIN e /\ e.is_fallback = TRUE
    \/ "model_info" \in DOMAIN e /\ e.model_info.demo_mode = TRUE

\* C10: the entry of every run whose result the mock generator produced is marked as
\* fallback, and the entry of every run an adapter answered is not.
C10_FallbackMarkSurvives ==
    \A u \in Units :
        /\ runs[u].produced_by = "fallback" => MarkedFallback(all_responses[u])
        /\ runs[u].produced_by = "adapter" => ~MarkedFallback(all_responses[u])

DemoModeMark == Chars("Demo Mode")
FallbackModeMark == Chars("Fallback Mode")

\* C11: the text of every entry the mock generator produced, in demo mode or after a
\* quota/auth error, for every provider and template, contains "Demo Mode" or
\* "Fallback Mode".
C11_MockTextAnnouncesMode ==
    \A u \in Units :
        runs[u].produced_by = "fallback"
        => \/ Contains(all_responses[u].response, DemoModeMark)
           \/ Contains(all_responses[u].response, FallbackModeMark)

BasicMetrics == {"response_length", "token_count", "latency_ms", "cost_estimate"}

\* C12: the mock generator always returns a result and never raises: a run whose
\* dispatch called it is never failed by it, and once the call is over the run is
\* SucceededViaFallback with an entry that carries a text and the basic metrics.
C12_FallbackAlwaysSucceeds ==
    \A u \in Units :
        /\ runs[u].raised_by # "fallback"
        /\ (runs[u].fallback_calls = 1 /\ Terminal(runs[u]))
           => /\ Outcome(runs[u]) = "SucceededViaFallback"
              /\ ~IsErrorEntry(all_responses[u])
              /\ Len(all_responses[u].response) > 0
              /\ BasicMetrics \subseteq DOMAIN all_responses[u].metrics

C12_Witness ==
    /\ ~demo_mode
    /\ \E u \in Units :
          /\ ProviderOf(u) = "huggingface"
          /\ Contains(request.prompt, <<"?">>)
          /\ runs[u].classified = "Quota"
          /\ Outcome(runs[u]) = "SucceededViaFallback"
          /\ all_responses[u].metrics.latency_ms > 2000

\* two fractions are the same number (denominators are positive)
FracEq(a, b) == a[1] * b[2] = b[1] * a[2]
\* two Optional scores are both absent or the same number
SameScore(a, b) == IF a = None \/ b = None THEN a = b ELSE FracEq(a[1], b[1])

\* C13: the advanced scores of an entry the mock generator produced are those the
\* metrics engine computes for the entry's text.
C13_FallbackMetricsFromEngine ==
    \A u \in Units :
        runs[u].produced_by = "fallback"
        => LET e == all_responses[u]
               engine == _calculate_metrics(Some(e.response), e.metrics.latency_ms,
                                            e.model_config).value
           IN  /\ SameScore(e.metrics.sentiment_score, engine.sentiment_score)
               /\ SameScore(e.metrics.readability_score, engine.readability_score)
               /\ SameScore(e.metrics.coherence_score, engine.coherence_score)

AdvancedMetrics == {"sentiment_score", "readability_score", "coherence_score"}

\* the entries of all_responses that carry a metrics snapshot
Snapshots == {all_responses[i].metrics : i \in {j \in DOMAIN all_responses :
                                                    ~IsErrorEntry(all_responses[j])}}

\* C14: in every metrics snapshot, whichever path produced it, response_length,
\* token_count and latency_ms are present and not negative; each advanced score is a
\* value or absent.
C14_BasicMetricsNonNegative ==
    \A m \in Snapshots :
        /\ {"response_length", "token_count", "latency_ms"} \subseteq DOMAIN m
        /\ m.response_length \in Nat
        /\ m.token_count \in Nat
        /\ m.latency_ms \in Nat
        /\ \A k \in AdvancedMetrics : k \in DOMAIN m => Len(m[k]) \in {0, 1}

C14_Witness ==
    /\ \E u \in Units :
          /\ runs[u].produced_by = "fallback"
          /\ all_responses[u].metrics.coherence_score = None
          /\ all_responses[u].metrics.sentiment_score # None
    /\ \E u \in Units :
          /\ runs[u].produced_by = "adapter"
          /\ \A k \in AdvancedMetrics : all_responses[u].metrics[k] # None
          /\ all_responses[u].metrics.latency_ms > 0

\* the entries of all_responses whose metrics the engine computed
Measured == {all_responses[u] : u \in {v \in Units : runs[v].produced_by = "adapter"}}

\* w is a whole whitespace token of t at position i, letter case ignored
IsWordAt(t, w, i) ==
    /\ i + Len(w) - 1 <= Len(t)
    /\ OccursAt(t, w, i)
    /\ (i = 1 \/ IsSpace(t[i - 1]))
    /\ (i + Len(w) - 1 = Len(t) \/ IsSpace(t[i + Len(w)]))
\* how many tokens of t are words of the lexicon
LexiconCount(t, lexicon) ==
    Cardinality({p \in lexicon \X (1..Len(t)) : IsWordAt(t, p[1], p[2])})

\* C15: sentiment_score is (pos - neg)/(pos + neg) over the lower-cased whitespace
\* tokens that are lexicon words, it lies in [-1, 1], and it is 0 when no token is a
\* lexicon word.
C15_SentimentFormula ==
    \A e \in Measured :
        LET score == e.metrics.sentiment_score[1]
            pos == LexiconCount(e.response, positive_words)
            neg == LexiconCount(e.response, negative_words)
        IN  /\ score[2] > 0
            /\ 0 - score[2] <= score[1] /\ score[1] <= score[2]
            /\ pos + neg = 0 => score[1] = 0
            /\ pos + neg > 0 => FracEq(score, <<pos - neg, pos + neg>>)

C15_Witness ==
    \E e \in Measured :
        /\ LexiconCount(e.response, positive_words) = 1
        /\ LexiconCount(e.response, negative_words) = 2
        /\ Contains(e.response, Chars("Bad"))
        /\ FracEq(e.metrics.sentiment_score[1], <<0 - 1, 3>>)

\* t.split() is empty
NoWords(t) == \A i \in 1..Len(t) : IsSpace(t[i])

\* C16: readability_score lies in [0, 1], it is 0 for a text without words, and its
\* computation divides by no zero (the denominator of the fraction is positive).
C16_ReadabilityRange ==
    \A e \in Measured :
        LET score == e.metrics.readability_score[1]
        IN  /\ score[2] > 0
            /\ 0 <= score[1] /\ score[1] <= score[2]
            /\ NoWords(e.response) => score[1] = 0

C16_Witness ==
    \E e \in Measured :
        /\ Len(e.response) > 1
        /\ NoWords(e.response)
        /\ e.metrics.readability_score[1][1] = 0

Periods(t) == {i \in 1..Len(t) : t[i] = "."}
\* how many words t has between positions lo and hi, none of which is a period
WordsBetween(t, lo, hi) ==
    Cardinality({i \in lo..hi : ~IsSpace(t[i]) /\ (i = lo \/ IsSpace(t[i - 1]))})
IsOne(score) == score[1] = score[2] /\ score[2] > 0

CoherenceOf(lengths) ==
    LET n == Cardinality(DOMAIN lengths)
        total == SumOver(lengths, DOMAIN lengths)
        \* n * n * variance
        spread == n * SumOver([b \in DOMAIN lengths |-> lengths[b] * lengths[b]], DOMAIN lengths)
                  - total * total
    IN  IF total >= n THEN <<n * total, n * total + spread>>
        ELSE <<n * n, n * n + spread>>

\* C18: coherence_score lies in (0, 1]; it is 1 when the text has fewer than two
\* non-empty segments between periods (a text of periods and blanks included), and
\* otherwise 1/(1 + variance/max(mean, 1)) of the segments' word counts.
C18_CoherenceRangeAndFormula ==
    \A e \in Measured :
        LET score == e.metrics.coherence_score[1]
            lengths == SegmentLengths(e.response)
        IN  /\ score[2] > 0
            /\ 0 < score[1] /\ score[1] <= score[2]
            /\ IF Cardinality(DOMAIN lengths) < 2
               THEN IsOne(score)
               ELSE FracEq(score, CoherenceOf(lengths))

\* the rate of a model name in micro-dollars per token: $0.03, 0.002, 0.015, 0.003
\* per 1000 tokens for the four names of the table, $0.001 for any other name
RateOf(model_name) ==
    CASE model_name = "gpt-4" -> 30
      [] model_name = "gpt-3.5-turbo" -> 2
      [] model_name = "claude-3-opus" -> 15
      [] model_name = "claude-3-sonnet" -> 3
      [] OTHER -> 1

\* C19: cost_estimate is token_count/1000 times the rate of the exact model name, the
\* default rate for a name the table does not have; for one model name it is not
\* negative and does not decrease when token_count grows.
C19_CostFormulaMonotone ==
    /\ \A e \in Measured :
          /\ e.metrics.cost_estimate = e.metrics.token_count * RateOf(e.model_config.model_name)
          /\ e.metrics.cost_estimate >= 0
    /\ \A e1, e2 \in Measured :
          (/\ e1.model_config.model_name = e2.model_config.model_name
           /\ e1.metrics.token_count <= e2.metrics.token_count)
          => e1.metrics.cost_estimate <= e2.metrics.cost_estimate

C19_Witness ==
    \E e1, e2 \in Measured :
        /\ e1.model_config.model_name = "gpt-4o"
        /\ e2.model_config.model_name = "gpt-4o"
        /\ e1.metrics.token_count < e2.metrics.token_count
        /\ e1.metrics.cost_estimate = e1.metrics.token_count
        /\ e1.metrics.cost_estimate < e2.metrics.cost_estimate

\* the keys of a summary whose value is a quotient
QuotientKeys == {"avg_" \o metrics_keys[i] : i \in DOMAIN metrics_keys} \cup {"success_rate"}
\* no quotient of the summary has denominator 0
NoZeroDivision(summary) ==
    \A k \in DOMAIN summary : k \in QuotientKeys => summary[k][2] > 0

\* C20: the summary of an empty batch is empty, and the summary of no batch divides
\* by zero: neither the one run_experiment returned for the runs without error, nor
\* the one of all entries so far, error entries (which have no metrics) included.
C20_AggregateNoZeroDivision ==
    /\ experiment_response # None =>
          LET summary == experiment_response[1].metrics
          IN  /\ (\A i \in DOMAIN all_responses : IsErrorEntry(all_responses[i]))
                    => summary = EmptyDict
              /\ NoZeroDivision(summary)
    /\ NoZeroDivision(calculate_aggregate_metrics(all_responses))
    /\ all_responses = <<>> => calculate_aggregate_metrics(all_responses) = EmptyDict

C20_Witness ==
    /\ experiment_response # None
    /\ Len(all_responses) = 2
    /\ \A i \in DOMAIN all_responses : IsErrorEntry(all_responses[i])
    /\ experiment_response[1].metrics = EmptyDict
    /\ calculate_aggregate_metrics(all_responses).success_rate = <<2, 4>>

(***************************************************************************)
(* The summary of an experiment.                                           *)
(***************************************************************************)
\* the units that ended with a result, from an adapter or from the mock generator
SuccessfulUnits == {u \in Units : Outcome(runs[u]) \in {"Succeeded", "SucceededViaFallback"}}

\* the value of metric k in the entry of unit u
MetricOf(u, k) == all_responses[u].metrics[k]

FailedUnits == {u \in Units : Outcome(runs[u]) = "Failed"}

\* C22: an experiment that ran s successful units and f failed ones, s + f > 0,
\* reports success_rate = s / (s + f).
C22_SuccessRate ==
    (experiment_response # None /\ Units # {}) =>
        LET summary == experiment_response[1].metrics
            s == Cardinality(SuccessfulUnits)
            f == Cardinality(FailedUnits)
        IN  /\ "success_rate" \in DOMAIN summary
            /\ FracEq(summary["success_rate"], <<s, s + f>>)

\* the entries run_experiment aggregates
SuccessfulEntries == SelectSeq(all_responses, LAMBDA e : ~IsErrorEntry(e))

\* an entry with the same metrics and the other origin: what tells a mock result
\* from a provider's (the banner of the text, the provider's token usage) changed
Relabelled(e) ==
    IF IsFallbackText(e.response)
    THEN [e EXCEPT !.response = Chars("Hi"), !.token_usage = [total_tokens |-> 1]]
    ELSE [e EXCEPT !.response = FallbackHeader \o e.response, !.token_usage = EmptyDict]

\* C23: a result of the mock generator is aggregated as a success like a
\* provider's result: it counts in total_responses, in success_rate and in
\* avg / min / max, and giving any aggregated entry the other origin with the
\* same metrics leaves the summary unchanged.
C23_FallbackCountsAsSuccess ==
    (experiment_response # None /\ SuccessfulUnits # {}) =>
        LET summary == experiment_response[1].metrics
            count == Cardinality(SuccessfulUnits)
        IN  /\ Len(SuccessfulEntries) = count
            /\ summary["total_responses"] = count
            /\ summary["success_rate"][1] = count
            /\ \A k \in BasicMetrics :
                  /\ ("avg_" \o k) \in DOMAIN summary
                  /\ summary["avg_" \o k][2] = count
                  /\ \A u \in SuccessfulUnits :
                        /\ summary["min_" \o k] <= MetricOf(u, k)
                        /\ summary["max_" \o k] >= MetricOf(u, k)
            /\ \A i \in DOMAIN SuccessfulEntries :
                  calculate_aggregate_metrics(
                      [SuccessfulEntries EXCEPT ![i] = Relabelled(@)]) = summary

\* a provider's result and a mock result after a quota or authentication error in
\* one summary
C23_Witness ==
    /\ experiment_response # None
    /\ \E u, v \in Units :
          /\ Outcome(runs[u]) = "Succeeded"
          /\ Outcome(runs[v]) = "SucceededViaFallback"
          /\ runs[v].classified \in {"Quota", "Auth"}
          /\ IsFallbackText(all_responses[v].response)
          /\ ~IsFallbackText(all_responses[u].response)
    /\ experiment_response[1].metrics["total_responses"] = 2

\* the permutations of 1..n
Orderings(n) == {f \in [1..n -> 1..n] : \A i \in 1..n : \E j \in 1..n : f[j] = i}

C25_CancelledUnitFails ==
    \A u \in Units :
        runs[u].cancelled =>
            /\ Outcome(runs[u]) = "Failed"
            /\ u <= Len(all_responses)
            /\ IsErrorEntry(all_responses[u])
            /\ pc # "cancelled"

\* the units whose dispatch created an adapter handle
HandleCreators == {u \in Units : runs[u].handle_created}

\* every provider call found its handle: it was there at dispatch, or the dispatch
\* made it before the call
HandlesBeforeUse ==
    \A u \in Units :
        runs[u].adapter_calls > 0 => (~runs[u].handle_missing \/ runs[u].handle_created)

FallbackUnits == {u \in Units : runs[u].produced_by = "fallback"}

\* how long after the start of the dispatch the mock generator was called
ElapsedBeforeFallback(u) ==
    IF runs[u].failed_after = None THEN 0 ELSE runs[u].failed_after[1]

\* C27: the latency_ms of a mock result is the time from the start of the
\* dispatch, taken before the adapter is called, to the adapter's failure, plus
\* the simulated delay of 500 to 2000 ms; hence it is at least 500 ms.
C27_FallbackLatencyAdditive ==
    \A u \in FallbackUnits :
        /\ runs[u].slept \in 500..2000
        /\ ElapsedBeforeFallback(u) >= 0
        /\ MetricOf(u, "latency_ms") = ElapsedBeforeFallback(u) + runs[u].slept
        /\ MetricOf(u, "latency_ms") >= 500

\* a mock result after a provider call that took time to fail
C27_Witness ==
    \E u \in FallbackUnits :
        /\ runs[u].adapter_calls = 1
        /\ AdapterFailed(runs[u])
        /\ ElapsedBeforeFallback(u) > 0
        /\ MetricOf(u, "latency_ms") > runs[u].slept
        /\ runs[u].slept >= 500

\* the guard of one of the four dispatch actions holds for the unit that is next
DispatchPossible ==
    \/ demo_mode
    \/ ~demo_mode /\ client_missing(model_config.provider)
    \/ /\ ~demo_mode
       /\ model_config.provider \in {"openai", "anthropic"}
       /\ ~client_missing(model_config.provider)
    \/ ~demo_mode /\ model_config.provider = "huggingface"

\* the position in responses of run j of configuration i
EntryIndex(i, j) == (i - 1) * request.num_runs + j

\* C28: the responses of a returned experiment with c configurations and n runs
\* are c * n entries, one per (configuration, run) pair, run_number 1..n for
\* every configuration, each a success entry or an error entry; a unit that fails
\* gets an error entry and the loop goes on: while units remain a dispatch is
\* possible, and an experiment returns only when every unit has its entry.
C28_OneEntryPerUnit ==
    LET c == Len(request.model_configs)
        n == request.num_runs
    IN  /\ Len(all_responses) = Cardinality({u \in Units : Terminal(runs[u])})
        /\ \A u \in Units : Terminal(runs[u]) <=> u <= Len(all_responses)
        /\ \A u \in FailedUnits : IsErrorEntry(all_responses[u])
        /\ (pc = "loop" /\ UnitsRemain) => DispatchPossible
        /\ experiment_response # None =>
              LET responses == experiment_response[1].responses
              IN  /\ Len(responses) = c * n
                  /\ \A i \in 1..c, j \in 1..n :
                        LET e == responses[EntryIndex(i, j)]
                        IN  /\ e.model_config = request.model_configs[i]
                            /\ e.run_number = j
                            /\ IsErrorEntry(e) <=> "response" \notin DOMAIN e
                            /\ IsErrorEntry(e) <=> EntryIndex(i, j) \in FailedUnits
                            /\ ~IsErrorEntry(e) <=> EntryIndex(i, j) \in SuccessfulUnits

\* two runs of one configuration, the first failed and the second answered, and
\* two configurations of which the first failed
C28_Witness ==
    /\ experiment_response # None
    /\ Cardinality(Units) = 2
    /\ 1 \in FailedUnits
    /\ 2 \in SuccessfulUnits
    /\ experiment_response[1].responses[2].run_number = request.num_runs
    /\ IsErrorEntry(experiment_response[1].responses[1])

\* the task run_experiment schedules for a success entry
TaskOf(e) ==
    [experiment_id |-> experiment_id, prompt |-> request.prompt,
     model_configuration |-> e.model_config, response |-> e.response,
     metrics |-> e.metrics, run_number |-> e.run_number]

\* C29: run_experiment schedules one persistence task for every successful unit,
\* mock results included, in order, and none for a failed unit; every stored row
\* has an id of its own, different from the experiment id, and the experiment id
\* returned to the caller as its experiment_group; running a task, whether the
\* save fails or not, leaves the returned response as it is.
C29_PersistenceTasks ==
    /\ [](/\ Len(background_tasks) = Cardinality(SuccessfulUnits)
          /\ background_tasks =
                 [i \in 1..Len(SuccessfulEntries) |-> TaskOf(SuccessfulEntries[i])]
          /\ Len(experiments) <= tasks_run
          /\ tasks_run <= Len(background_tasks)
          /\ tasks_run > 0 => experiment_response # None
          /\ \A i \in DOMAIN experiments :
                /\ experiments[i].id # experiment_id
                /\ experiments[i].experiment_group = experiment_id
                /\ experiments[i].experiment_group = experiment_response[1].id
                /\ \A j \in DOMAIN experiments : experiments[j].id = experiments[i].id => j = i
                /\ \E t \in 1..tasks_run :
                      experiments[i] = experiment_row(experiments[i].id, background_tasks[t]))
    /\ [][tasks_run' # tasks_run =>
             /\ experiment_response' = experiment_response
             /\ all_responses' = all_responses
             /\ background_tasks' = background_tasks]_vars

\* an experiment with a mock result after a quota or authentication error and a
\* failed unit: one task, run, and its row stored
C29_Witness ==
    /\ experiment_response # None
    /\ \E u \in SuccessfulUnits : /\ runs[u].produced_by = "fallback"
                                  /\ runs[u].classified \in {"Quota", "Auth"}
    /\ FailedUnits # {}
    /\ Len(background_tasks) = 1
    /\ tasks_run = 1
    /\ Len(experiments) = 1
    /\ IsFallbackText(experiments[1].response)

\* C30: update_experiment_rating answers a rating outside 1..5 with status 400
\* and changes no stored rating, answers an id that matches no stored row with
\* status 404, and answers 500 only when the data service raised.
C30_RatingStatuses ==
    rating_reply # None =>
        LET reply == rating_reply[1]
        IN  /\ reply.rating \notin 1..5 =>
                  (reply.status = 400 /\ ~reply.ratings_changed)
            /\ (reply.rating \in 1..5 /\ ~reply.data_service_raised /\ ~reply.matched) =>
                  reply.status = 404
            /\ reply.status = 500 => reply.data_service_raised

====
